---- MODULE Spec2Model ----
(***************************************************************************)
(* A model of the LinkedIn post generator backend: the in-memory rate      *)
(* limiter (backend/gemini_utils.py), the generation gateway and its HTTP  *)
(* status mapping (main.py), and signup / login / token validation         *)
(* (backend/auth.py).  FastAPI runs the synchronous endpoints on a thread  *)
(* pool, so the handlers in progress are a bag of activations, each with   *)
(* its position pc and its locals; the steps of RateLimiter.is_allowed are *)
(* the separate dictionary and list operations of its source lines.  Time  *)
(* is in seconds, as time.time().                                          *)
(***************************************************************************)
EXTENDS Integers, Sequences, FiniteSets, Bags, TLC

\* ---------------------------------------------------------------- bounds
NumThreads == 2
NumUsers == 2
MaxCalls == 4
MaxHttpCalls == 2
MaxEpoch == 1
MaxLimit == 2

\* ------------------------------------------------------ program constants
DefaultMaxRequests == 10
DefaultWindowMinutes == 60
SecondsPerMinute == 60
StatsMaxRequests == 10
MinPostLength == 10
HTTP_200_OK == 200
HTTP_429_TOO_MANY_REQUESTS == 429
HTTP_500_INTERNAL_SERVER_ERROR == 500
HTTP_503_SERVICE_UNAVAILABLE == 503
HTTP_400_BAD_REQUEST == 400
HTTP_401_UNAUTHORIZED == 401
HTTP_422_VALIDATION_ERROR == 422
MinUsernameLength == 3
MaxUsernameLength == 50
MinPasswordLength == 8
MaxPasswordLength == 128
AccessTokenExpireMinutes == 30

Users == 1..NumUsers

VARIABLES
  now,        \* the clock, as last read
  requests,   \* rate_limiter.requests: user_id -> list of timestamps (a dict)
  running,    \* the handler activations in progress: a bag of frames
  calls,      \* number of calls started
  admitted,   \* history: per user, the timestamps of the calls is_allowed admitted
  cfg,        \* the max_requests / window_minutes arguments of direct is_allowed calls
  users,      \* the committed rows of the users table
  next_id,    \* the sequence behind users.id
  username_unique  \* whether the table's schema declares username UNIQUE

vars == <<now, requests, running, calls, admitted, cfg, users, next_id, username_unique>>

\* ----------------------------------------------------------- pure helpers
Max(a, b) == IF a > b THEN a ELSE b

Count(seq, x) == Cardinality({i \in DOMAIN seq : seq[i] = x})

Range(seq) == {seq[i] : i \in DOMAIN seq}

\* window_start = current_time - (window_minutes * 60)
WindowStart(current_time, window_minutes) ==
  current_time - (window_minutes * SecondsPerMinute)

\* [req_time for req_time in self.requests[user_id] if req_time > window_start]
PurgeOld_KeepAll(reqs, window_start) == reqs
PurgeOld_KeepBoundary(reqs, window_start) ==
  SelectSeq(reqs, LAMBDA req_time : req_time >= window_start)
PurgeOld(reqs, window_start) ==
  SelectSeq(reqs, LAMBDA req_time : req_time > window_start)

\* len(self.requests[user_id]) < max_requests
UnderLimit_OffByOne(reqs, max_requests) == Len(reqs) <= max_requests
UnderLimit(reqs, max_requests) == Len(reqs) < max_requests

\* self.requests[user_id] = lst  (a dict store: creates the key when missing)
Store_Shared(user_id, lst) ==
  [v \in (DOMAIN requests) \cup {user_id} |-> lst]
Store(user_id, lst) ==
  [v \in (DOMAIN requests) \cup {user_id} |-> IF v = user_id THEN lst ELSE requests[v]]

\* rate_limiter.requests.get(user_id, [])
Window(user_id) == IF user_id \in DOMAIN requests THEN requests[user_id] ELSE <<>>

NoStats == [used |-> 0, max |-> 0, remaining |-> 0]

NoToken == [sig |-> "none", payload |-> <<>>]

\* the locals of a handler that has just been entered
NoFrame ==
  [pc |-> "entry", kind |-> "none", user_id |-> 0, max_requests |-> 0, window_minutes |-> 0,
   current_time |-> 0, window_start |-> 0, filtered |-> <<>>, orphan |-> FALSE,
   allowed |-> FALSE, invoked |-> 0, error_type |-> "unset", status |-> 0,
   pre |-> <<>>, stats |-> NoStats,
   raw_username |-> <<>>, username |-> <<>>, password |-> <<>>, found |-> FALSE,
   detail |-> "",
   headers |-> "", token |-> NoToken]

\* ------------------------------------------------------- the thread pool
\* the distinct frames in progress
Active == BagToSet(running)

\* no request is being handled
AllIdle == running = EmptyBag

\* a worker of the pool is free to take a request
FreeWorker == BagCardinality(running) < NumThreads

\* a worker takes a request and enters its handler with frame f
Enter(bag, f) == bag (+) SetToBag({f})

\* the handler whose frame is f leaves
Leave(bag, f) == bag (-) SetToBag({f})

\* the handler whose frame is f takes a step that makes its frame g
Step(bag, f, g) == Enter(Leave(bag, f), g)

\* ------------------------------------------------------------------ clock
\* The instants at which the clock is observed: time 0, one second later,
\* and one second past every whole window length since time 0 (an epoch),
\* so that a timestamp may be older than, exactly at, or newer than the
\* start of the window of a later call.
Instants ==
  {0, 1} \cup
  {e * (cfg.window_minutes * SecondsPerMinute) + 1 : e \in 1..MaxEpoch}

\* time.time() read now: the clock has moved on to `time`, or stands still
ClockReads(time) == time \in Instants /\ time >= now

\* ------------------------------------------- RateLimiter.is_allowed, by line
\* A list that a thread loaded for its append (line 55) stops being the
\* user's window when another thread stores a new list under the same key.
Orphaned(bag, user_id) ==
  LET loaded(g) == g.pc = "L55_append" /\ g.user_id = user_id
      mark(g) == IF loaded(g) THEN [g EXCEPT !.orphan = TRUE] ELSE g
  IN  [h \in {mark(g) : g \in BagToSet(bag)} |->
         CopiesIn(h, bag)
           + (IF loaded(h) /\ h.orphan
              THEN CopiesIn([h EXCEPT !.orphan = FALSE], bag)
              ELSE 0)]

\* where is_allowed returns to
AfterIsAllowed(f) == IF f.kind = "generate" THEN "L76" ELSE "done"

\* lines 44-45: the frame once the clock has been read as `time`
ReadClock(f, time) ==
  [f EXCEPT !.pc = "L47", !.current_time = time,
            !.window_start = WindowStart(time, f.window_minutes)]

\* line 47
CheckSeen(f) ==
  /\ f.pc = "L47"
  /\ running' = Step(running, f,
                     [f EXCEPT !.pc = IF f.user_id \in DOMAIN requests
                                      THEN "L51_read" ELSE "L48"])
  /\ UNCHANGED <<now, requests, calls, admitted, cfg, users, next_id, username_unique>>

\* line 48
CreateWindow(f) ==
  /\ f.pc = "L48"
  /\ requests' = Store(f.user_id, <<>>)
  /\ running' = Step(Orphaned(running, f.user_id), f, [f EXCEPT !.pc = "L51_read"])
  /\ UNCHANGED <<now, calls, admitted, cfg, users, next_id, username_unique>>

\* line 51, right-hand side
PurgeRead(f) ==
  /\ f.pc = "L51_read"
  /\ running' = Step(running, f,
                     [f EXCEPT !.pc = "L51_write",
                               !.filtered = PurgeOld(requests[f.user_id], f.window_start)])
  /\ UNCHANGED <<now, requests, calls, admitted, cfg, users, next_id, username_unique>>

\* line 51, the store
PurgeWrite(f) ==
  /\ f.pc = "L51_write"
  /\ requests' = Store(f.user_id, f.filtered)
  /\ running' = Step(Orphaned(running, f.user_id), f,
                     [f EXCEPT !.pc = "L54", !.filtered = <<>>])
  /\ UNCHANGED <<now, calls, admitted, cfg, users, next_id, username_unique>>

\* line 54, and line 58 when over the limit
CheckLimit(f) ==
  /\ f.pc = "L54"
  /\ running' = Step(running, f,
                     IF UnderLimit(requests[f.user_id], f.max_requests)
                     THEN [f EXCEPT !.pc = "L55_load"]
                     ELSE [f EXCEPT !.pc = AfterIsAllowed(f), !.allowed = FALSE])
  /\ UNCHANGED <<now, requests, calls, admitted, cfg, users, next_id, username_unique>>

\* line 55: self.requests[user_id] is looked up
LoadWindow(f) ==
  /\ f.pc = "L55_load"
  /\ running' = Step(running, f, [f EXCEPT !.pc = "L55_append", !.orphan = FALSE])
  /\ UNCHANGED <<now, requests, calls, admitted, cfg, users, next_id, username_unique>>

\* line 55: .append(current_time) on the list looked up, and line 56
AppendNow(f) ==
  /\ f.pc = "L55_append"
  /\ requests' = IF f.orphan
                 THEN requests
                 ELSE [requests EXCEPT ![f.user_id] = Append(@, f.current_time)]
  /\ running' = Step(running, f,
                     [f EXCEPT !.pc = AfterIsAllowed(f), !.allowed = TRUE, !.orphan = FALSE])
  /\ admitted' = [admitted EXCEPT ![f.user_id] = Append(@, f.current_time)]
  /\ UNCHANGED <<now, calls, cfg, users, next_id, username_unique>>

\* a direct call rate_limiter.is_allowed(user_id, max_requests, window_minutes):
\* the call is entered and reads the clock (lines 43-45), which touches no
\* shared data
BeginIsAllowed(user_id) ==
  /\ FreeWorker
  /\ calls < MaxCalls
  /\ calls' = calls + 1
  /\ \E time \in Instants :
       /\ ClockReads(time)
       /\ now' = time
       /\ running' = Enter(running,
                           ReadClock([NoFrame EXCEPT !.kind = "is_allowed",
                                                     !.user_id = user_id,
                                                     !.max_requests = cfg.max_requests,
                                                     !.window_minutes = cfg.window_minutes,
                                                     !.pre = Window(user_id)],
                                     time))
  /\ UNCHANGED <<requests, admitted, cfg, users, next_id, username_unique>>

\* the handler's result has been delivered
Return(f) ==
  /\ f.pc = "done"
  /\ running' = Leave(running, f)
  /\ UNCHANGED <<now, requests, calls, admitted, cfg, users, next_id, username_unique>>

\* ------------------------------------------------ the limiter driven alone
InitLimiter ==
  /\ now = 0
  /\ requests = [u \in {} |-> <<>>]
  /\ running = EmptyBag
  /\ calls = 0
  /\ admitted = [u \in Users |-> <<>>]
  /\ cfg \in [max_requests : 1..MaxLimit, window_minutes : {1, DefaultWindowMinutes}]
  /\ users = {} /\ next_id = 1 /\ username_unique = TRUE

\* calls made one after the other
NextLimiter ==
  \/ \E u \in Users : AllIdle /\ BeginIsAllowed(u)
  \/ \E f \in Active : CheckSeen(f)
  \/ \E f \in Active : CreateWindow(f)
  \/ \E f \in Active : PurgeRead(f)
  \/ \E f \in Active : PurgeWrite(f)
  \/ \E f \in Active : CheckLimit(f)
  \/ \E f \in Active : LoadWindow(f)
  \/ \E f \in Active : AppendNow(f)
  \/ \E f \in Active : Return(f)

SpecLimiter == InitLimiter /\ [][NextLimiter]_vars

\* -------------------------------------- generate_linkedin_post and /generate
\* What model.generate_content does: it returns a response whose text has
\* `raw` characters, `stripped` of them left by .strip(), or it raises.
ProviderResults ==
  {[kind |-> "text", raw |-> 0, stripped |-> 0],
   [kind |-> "text", raw |-> 3, stripped |-> 0],
   [kind |-> "text", raw |-> 9, stripped |-> 9],
   [kind |-> "text", raw |-> 12, stripped |-> 10],
   [kind |-> "ResourceExhausted", raw |-> 0, stripped |-> 0],
   [kind |-> "GoogleAPIError", raw |-> 0, stripped |-> 0],
   [kind |-> "Exception", raw |-> 0, stripped |-> 0]}

\* gemini_utils.py lines 138-191: the outcome of a provider result
ErrorTypeOf(r) ==
  CASE r.kind = "ResourceExhausted" -> "quota_exceeded"
    [] r.kind = "GoogleAPIError" -> "api_error"
    [] r.kind = "Exception" -> "unexpected_error"
    [] OTHER -> IF r.raw = 0 THEN "empty_response"
                ELSE IF r.stripped < MinPostLength THEN "content_too_short"
                ELSE "ok"

\* main.py lines 89-115: the HTTP status of an outcome
StatusOf(error_type) ==
  IF error_type = "ok" THEN HTTP_200_OK
  ELSE IF error_type = "rate_limit" THEN HTTP_429_TOO_MANY_REQUESTS
  ELSE IF error_type = "quota_exceeded" THEN HTTP_503_SERVICE_UNAVAILABLE
  ELSE HTTP_500_INTERNAL_SERVER_ERROR

\* gemini_utils.py line 76: does the call go on to the provider
PassesGate_Always(allowed) == TRUE
PassesGate(allowed) == allowed

\* the window after a provider result has been mapped (lines 138-191 leave
\* rate_limiter alone)
AfterProvider_Revert(f, r) ==
  IF ErrorTypeOf(r) = "ok" THEN requests
  ELSE [requests EXCEPT ![f.user_id] =
          SelectSeq(@, LAMBDA req_time : req_time # f.current_time)]
AfterProvider(f, r) == requests

\* POST /generate for an authenticated user: main.py line 87 calls
\* generate_linkedin_post, which calls rate_limiter.is_allowed(user_id) at
\* line 76, which reads the clock (lines 44-45)
BeginGenerate(user_id) ==
  /\ FreeWorker
  /\ calls < MaxHttpCalls
  /\ calls' = calls + 1
  /\ \E time \in Instants :
       /\ ClockReads(time)
       /\ now' = time
       /\ running' = Enter(running,
                           ReadClock([NoFrame EXCEPT !.kind = "generate",
                                                     !.user_id = user_id,
                                                     !.max_requests = DefaultMaxRequests,
                                                     !.window_minutes = DefaultWindowMinutes],
                                     time))
  /\ UNCHANGED <<requests, admitted, cfg, users, next_id, username_unique>>

\* gemini_utils.py lines 76-82; a rejection goes back through main.py lines
\* 89-98
Gate(f) ==
  /\ f.pc = "L76"
  /\ running' = Step(running, f,
                     IF PassesGate(f.allowed)
                     THEN [f EXCEPT !.pc = "L128"]
                     ELSE [f EXCEPT !.pc = "done", !.error_type = "rate_limit",
                                    !.status = StatusOf("rate_limit")])
  /\ UNCHANGED <<now, requests, calls, admitted, cfg, users, next_id, username_unique>>

\* gemini_utils.py lines 124-191: the provider is invoked and its result
\* mapped; main.py lines 89-115 turn the outcome into the response
CallProvider(f) ==
  /\ f.pc = "L128"
  /\ \E r \in ProviderResults :
       /\ running' = Step(running, f,
                          [f EXCEPT !.pc = "done", !.invoked = @ + 1,
                                    !.error_type = ErrorTypeOf(r),
                                    !.status = StatusOf(ErrorTypeOf(r))])
       /\ requests' = AfterProvider(f, r)
  /\ UNCHANGED <<now, calls, admitted, cfg, users, next_id, username_unique>>

\* ----------------------------------------- get_generation_stats and /stats
\* gemini_utils.py line 196
StatsWindowStart(current_time) == current_time - (60 * 60)

\* gemini_utils.py line 199
RecentRequests_All(user_requests, window_start) == user_requests
RecentRequests(user_requests, window_start) ==
  SelectSeq(user_requests, LAMBDA req : req > window_start)

\* gemini_utils.py lines 195-205
GenerationStats(user_id, current_time) ==
  LET recent_requests == RecentRequests(Window(user_id), StatsWindowStart(current_time))
  IN  [used |-> Len(recent_requests),
       max |-> StatsMaxRequests,
       remaining |-> Max(0, StatsMaxRequests - Len(recent_requests))]

\* rate_limiter.requests after get_generation_stats: lines 198-199 read the
\* dict with .get and build a new list, nothing is stored
AfterStats_Purging(user_id, current_time) ==
  IF user_id \in DOMAIN requests
  THEN Store(user_id, RecentRequests(requests[user_id], StatsWindowStart(current_time)))
  ELSE requests
AfterStats(user_id, current_time) == requests

\* GET /stats for an authenticated user: main.py lines 126-137
GetStats(user_id) ==
  /\ FreeWorker
  /\ calls < MaxHttpCalls
  /\ calls' = calls + 1
  /\ \E time \in Instants :
       /\ ClockReads(time)
       /\ now' = time
       /\ running' = Enter(running,
                           [NoFrame EXCEPT !.pc = "done", !.kind = "stats",
                                           !.user_id = user_id,
                                           !.current_time = time,
                                           !.pre = Window(user_id),
                                           !.stats = GenerationStats(user_id, time),
                                           !.status = HTTP_200_OK])
       /\ requests' = AfterStats(user_id, time)
  /\ UNCHANGED <<admitted, cfg, users, next_id, username_unique>>

\* ------------------------------------------------------- the running server
\* The server has been running: user 1 has used part of their hour already,
\* PriorUse admitted requests at time 0; the limiter has not seen the others.
PriorUse == DefaultMaxRequests - 1

InitApp ==
  /\ now = 0
  /\ requests = [u \in {1} |-> [i \in 1..PriorUse |-> 0]]
  /\ running = EmptyBag
  /\ calls = 0
  /\ admitted = [u \in Users |-> Window(u)]
  /\ cfg = [max_requests |-> DefaultMaxRequests, window_minutes |-> DefaultWindowMinutes]
  /\ users = {} /\ next_id = 1 /\ username_unique = TRUE

\* no finished handler is waiting to return
NoneDone == \A f \in Active : f.pc # "done"

\* Requests handled concurrently by the thread pool.  A handler that has
\* finished returns before the pool takes another step: returning reads and
\* writes nothing shared.
Next ==
  \/ \E u \in Users : NoneDone /\ BeginGenerate(u)
  \/ \E u \in Users : NoneDone /\ GetStats(u)
  \/ \E f \in Active : NoneDone /\ CheckSeen(f)
  \/ \E f \in Active : NoneDone /\ CreateWindow(f)
  \/ \E f \in Active : NoneDone /\ PurgeRead(f)
  \/ \E f \in Active : NoneDone /\ PurgeWrite(f)
  \/ \E f \in Active : NoneDone /\ CheckLimit(f)
  \/ \E f \in Active : NoneDone /\ LoadWindow(f)
  \/ \E f \in Active : NoneDone /\ AppendNow(f)
  \/ \E f \in Active : NoneDone /\ Gate(f)
  \/ \E f \in Active : NoneDone /\ CallProvider(f)
  \/ \E f \in Active : Return(f)

Spec == InitApp /\ [][Next]_vars

\* ------------------------------------------- requests handled one at a time
\* As InitApp, but user 1 may also have used the whole hour already.
InitSequence ==
  /\ now = 0
  /\ \E used \in {PriorUse, DefaultMaxRequests} :
       requests = [u \in {1} |-> [i \in 1..used |-> 0]]
  /\ running = EmptyBag
  /\ calls = 0
  /\ admitted = [u \in Users |-> Window(u)]
  /\ cfg = [max_requests |-> DefaultMaxRequests, window_minutes |-> DefaultWindowMinutes]
  /\ users = {} /\ next_id = 1 /\ username_unique = TRUE

\* every handler in the pool has finished
AllDone == \A f \in Active : f.pc = "done"

\* The requests arrive one after the other: a request is taken up when the
\* one before it has finished; its finished handler may still hold its result.
NextSequence ==
  \/ \E u \in Users : AllDone /\ BeginGenerate(u)
  \/ \E u \in Users : AllDone /\ GetStats(u)
  \/ \E f \in Active : CheckSeen(f)
  \/ \E f \in Active : CreateWindow(f)
  \/ \E f \in Active : PurgeRead(f)
  \/ \E f \in Active : PurgeWrite(f)
  \/ \E f \in Active : CheckLimit(f)
  \/ \E f \in Active : LoadWindow(f)
  \/ \E f \in Active : AppendNow(f)
  \/ \E f \in Active : Gate(f)
  \/ \E f \in Active : CallProvider(f)
  \/ \E f \in Active : Return(f)

SpecSequence == InitSequence /\ [][NextSequence]_vars

\* ------------------------------------------------------ backend/auth.py
\* Strings are sequences of characters.
UpperCase ==
  <<"A", "B", "C", "D", "E", "F", "G", "H", "I", "J", "K", "L", "M",
    "N", "O", "P", "Q", "R", "S", "T", "U", "V", "W", "X", "Y", "Z">>
LowerCase ==
  <<"a", "b", "c", "d", "e", "f", "g", "h", "i", "j", "k", "l", "m",
    "n", "o", "p", "q", "r", "s", "t", "u", "v", "w", "x", "y", "z">>
Digits == {"0", "1", "2", "3", "4", "5", "6", "7", "8", "9"}

\* str.lower()
LowerChar(c) ==
  IF \E i \in DOMAIN UpperCase : UpperCase[i] = c
  THEN LowerCase[CHOOSE i \in DOMAIN UpperCase : UpperCase[i] = c]
  ELSE c
Lower(v) == [i \in DOMAIN v |-> LowerChar(v[i])]

\* re.match(r'^[a-zA-Z0-9_]+$', v): $ also matches before one final newline
MatchesWord(v) ==
  LET body == IF Len(v) > 0 /\ v[Len(v)] = "\n" THEN SubSeq(v, 1, Len(v) - 1) ELSE v
  IN  /\ Len(body) >= 1
      /\ \A i \in DOMAIN body :
           body[i] \in Range(UpperCase) \cup Range(LowerCase) \cup Digits \cup {"_"}

\* User.validate_username, lines 61-67: does the validator accept v
ValidUsername(v) ==
  /\ Len(v) >= MinUsernameLength
  /\ Len(v) <= MaxUsernameLength
  /\ MatchesWord(v)

\* User.validate_password, lines 71-83
ValidPassword(v) ==
  /\ Len(v) >= MinPasswordLength
  /\ Len(v) <= MaxPasswordLength
  /\ \E i \in DOMAIN v : v[i] \in Range(UpperCase)
  /\ \E i \in DOMAIN v : v[i] \in Range(LowerCase)
  /\ \E i \in DOMAIN v : v[i] \in Digits

\* pwd_context.hash and pwd_context.verify
Hash(password) == <<"bcrypt">> \o password
Verify(password, hashed) == hashed = Hash(password)

UsernameInputs ==
  {<<"b", "o", "b">>, <<"B", "o", "b">>, <<"B", "O", "B">>, <<"a", "l", "_", "1">>,
   <<"a", "b">>, <<"b", "o", "-">>}

PasswordInputs ==
  {<<"P", "a", "s", "s", "w", "0", "r", "d">>,
   <<"S", "e", "c", "r", "e", "t", "9", "9">>,
   <<"p", "a", "s", "s", "w", "o", "r", "d">>}

\* SELECT ... FROM users WHERE username = %s
RowsNamed(username) == {row \in users : row.username = username}

\* lines 104-108: cursor.fetchone() is truthy
UsernameTaken(username) == RowsNamed(username) # {}

\* the responses of signup
SignupConflict ==
  [status |-> HTTP_400_BAD_REQUEST, detail |-> "Username already exists"]
SignupError ==
  [status |-> HTTP_500_INTERNAL_SERVER_ERROR, detail |-> "Internal server error during signup"]

\* what the except clauses of lines 124-132 make of a unique violation raised
\* by the INSERT of line 115
OnUniqueViolation == SignupError

\* POST /auth/signup: the User model is validated (lines 60-83), the password
\* hashed (line 99)
BeginSignup(raw_username, raw_password) ==
  /\ FreeWorker
  /\ calls < MaxHttpCalls
  /\ calls' = calls + 1
  /\ running' = Enter(running,
                      IF ValidUsername(raw_username) /\ ValidPassword(raw_password)
                      THEN [NoFrame EXCEPT !.pc = "L104", !.kind = "signup",
                                           !.raw_username = raw_username,
                                           !.username = Lower(raw_username),
                                           !.password = Hash(raw_password)]
                      ELSE [NoFrame EXCEPT !.pc = "done", !.kind = "signup",
                                           !.raw_username = raw_username,
                                           !.status = HTTP_422_VALIDATION_ERROR,
                                           !.detail = "validation error"])
  /\ UNCHANGED <<now, requests, admitted, cfg, users, next_id, username_unique>>

\* lines 104-112: the existence check sees the committed rows
SelectUser(f) ==
  /\ f.pc = "L104"
  /\ running' = Step(running, f,
                     IF UsernameTaken(f.username)
                     THEN [f EXCEPT !.pc = "done", !.found = TRUE,
                                    !.status = SignupConflict.status,
                                    !.detail = SignupConflict.detail]
                     ELSE [f EXCEPT !.pc = "L115"])
  /\ UNCHANGED <<now, requests, calls, admitted, cfg, users, next_id, username_unique>>

\* lines 115-118: the INSERT, inside this thread's transaction.  Under a UNIQUE
\* constraint it waits for an uncommitted insert of the same username, and
\* fails when a committed row has it (lines 126-132 then roll back).
InsertUser(f) ==
  /\ f.pc = "L115"
  /\ ~(username_unique /\ \E g \in Active : g.pc = "L119" /\ g.username = f.username)
  /\ IF username_unique /\ UsernameTaken(f.username)
     THEN /\ running' = Step(running, f,
                             [f EXCEPT !.pc = "done",
                                       !.status = OnUniqueViolation.status,
                                       !.detail = OnUniqueViolation.detail])
          /\ next_id' = next_id
     ELSE /\ running' = Step(running, f, [f EXCEPT !.pc = "L119", !.user_id = next_id])
          /\ next_id' = next_id + 1
  /\ UNCHANGED <<now, requests, calls, admitted, cfg, users, username_unique>>

\* lines 119-122: db.commit() and the response
CommitUser(f) ==
  /\ f.pc = "L119"
  /\ users' = users \cup {[id |-> f.user_id, username |-> f.username,
                           password |-> f.password]}
  /\ running' = Step(running, f,
                     [f EXCEPT !.pc = "done", !.status = HTTP_200_OK,
                               !.detail = "User created successfully"])
  /\ UNCHANGED <<now, requests, calls, admitted, cfg, next_id, username_unique>>

\* create_access_token, lines 135-143
CreateAccessToken(data, time) ==
  [sig |-> "valid",
   payload |-> [sub |-> data.sub, user_id |-> data.user_id,
                exp |-> time + AccessTokenExpireMinutes * SecondsPerMinute,
                iat |-> time, type |-> "access"]]

\* lines 159-163: the response to a failed login; `found` tells whether the
\* username had a row
AuthFailure_Enumerating(found) ==
  [status |-> HTTP_401_UNAUTHORIZED,
   detail |-> IF found THEN "Incorrect password" ELSE "User not found",
   headers |-> "WWW-Authenticate: Bearer"]
AuthFailure(found) ==
  [status |-> HTTP_401_UNAUTHORIZED,
   detail |-> "Invalid username or password",
   headers |-> "WWW-Authenticate: Bearer"]

\* POST /auth/token, lines 147-169 (the storage round trip succeeds)
Login(raw_username, raw_password) ==
  /\ FreeWorker
  /\ calls < MaxHttpCalls
  /\ calls' = calls + 1
  /\ LET base == [NoFrame EXCEPT !.pc = "done", !.kind = "login",
                                 !.raw_username = raw_username,
                                 !.username = Lower(raw_username),
                                 !.password = raw_password]
         failure(found, id) ==
           [base EXCEPT !.found = found, !.user_id = id,
                        !.status = AuthFailure(found).status,
                        !.detail = AuthFailure(found).detail,
                        !.headers = AuthFailure(found).headers]
     IN  IF RowsNamed(Lower(raw_username)) = {}
         THEN running' = Enter(running, failure(FALSE, 0)) /\ now' = now
         ELSE \E user \in RowsNamed(Lower(raw_username)) :
                IF ~Verify(raw_password, user.password)
                THEN running' = Enter(running, failure(TRUE, user.id)) /\ now' = now
                ELSE \E time \in Instants :
                       /\ ClockReads(time)
                       /\ now' = time
                       /\ running' = Enter(running,
                                       [base EXCEPT !.found = TRUE, !.allowed = TRUE,
                                                    !.user_id = user.id,
                                                    !.status = HTTP_200_OK,
                                                    !.current_time = time,
                                                    !.token = CreateAccessToken(
                                                       [sub |-> user.username,
                                                        user_id |-> user.id], time)])
  /\ UNCHANGED <<requests, admitted, cfg, users, next_id, username_unique>>

\* jwt.decode(token, key, algorithms=[...]), line 189: the signature is
\* verified, then the exp claim when the payload carries one
JwtDecode(token, time) ==
  IF token.sig # "valid" THEN "PyJWTError"
  ELSE IF "exp" \in DOMAIN token.payload /\ token.payload["exp"] <= time
  THEN "ExpiredSignatureError"
  ELSE "decoded"

\* lines 182-186
CredentialsException ==
  [status |-> HTTP_401_UNAUTHORIZED, detail |-> "Could not validate credentials",
   headers |-> "WWW-Authenticate: Bearer"]

\* lines 199-204
ExpiredException ==
  [status |-> HTTP_401_UNAUTHORIZED, detail |-> "Token has expired",
   headers |-> "WWW-Authenticate: Bearer"]

\* get_current_user, lines 181-206
GetCurrentUser(token, time) ==
  LET payload == token.payload
      decoded == JwtDecode(token, time)
  IN  IF decoded = "ExpiredSignatureError" THEN ExpiredException
      ELSE IF decoded = "PyJWTError" THEN CredentialsException
      ELSE IF \/ "sub" \notin DOMAIN payload
              \/ "user_id" \notin DOMAIN payload
              \/ "type" \notin DOMAIN payload
              \/ payload["type"] # "access"
      THEN CredentialsException
      ELSE [status |-> HTTP_200_OK, detail |-> "", headers |-> ""]

\* The bearer tokens presented: every subset of the claims, signed or not.
ClaimNames == {"sub", "user_id", "type", "exp"}

ExpValues == Instants \cup {AccessTokenExpireMinutes * SecondsPerMinute}

TokenInputs ==
  {[sig |-> sig, payload |-> [k \in present |-> full[k]]] :
     sig \in {"valid", "tampered"},
     present \in SUBSET ClaimNames,
     full \in {[sub |-> <<"b", "o", "b">>, user_id |-> 1, type |-> type, exp |-> exp] :
                 type \in {"access", "refresh"}, exp \in ExpValues}}

\* GET /auth/me, lines 209-215: the dependency get_current_user decides
Validate(token) ==
  /\ FreeWorker
  /\ calls < MaxHttpCalls
  /\ calls' = calls + 1
  /\ \E time \in Instants :
       /\ ClockReads(time)
       /\ now' = time
       /\ LET r == GetCurrentUser(token, time)
          IN  running' = Enter(running,
                               [NoFrame EXCEPT !.pc = "done", !.kind = "validate",
                                               !.token = token,
                                               !.current_time = time,
                                               !.allowed = (r.status = HTTP_200_OK),
                                               !.status = r.status,
                                               !.detail = r.detail,
                                               !.headers = r.headers])
  /\ UNCHANGED <<requests, admitted, cfg, users, next_id, username_unique>>

\* ------------------------------------------------- signup and login, served
\* The table is empty or holds bob; its schema, which the repository does not
\* contain, may or may not declare username UNIQUE.
Bob ==
  [id |-> 1, username |-> <<"b", "o", "b">>,
   password |-> Hash(<<"P", "a", "s", "s", "w", "0", "r", "d">>)]

InitAuth ==
  /\ now = 0
  /\ requests = [u \in {} |-> <<>>]
  /\ running = EmptyBag
  /\ calls = 0
  /\ admitted = [u \in Users |-> <<>>]
  /\ cfg = [max_requests |-> DefaultMaxRequests, window_minutes |-> DefaultWindowMinutes]
  /\ \/ users = {} /\ next_id = 1
     \/ users = {Bob} /\ next_id = 2
  /\ username_unique \in BOOLEAN

NextAuth ==
  \/ \E u \in UsernameInputs, p \in PasswordInputs : BeginSignup(u, p)
  \/ \E f \in Active : SelectUser(f)
  \/ \E f \in Active : InsertUser(f)
  \/ \E f \in Active : CommitUser(f)
  \/ \E u \in UsernameInputs, p \in PasswordInputs : Login(u, p)
  \/ \E f \in Active : Return(f)

SpecAuth == InitAuth /\ [][NextAuth]_vars

\* ------------------------------------------------ bearer tokens, validated
NextToken ==
  \/ \E token \in TokenInputs : AllIdle /\ Validate(token)
  \/ \E f \in Active : Return(f)

SpecToken == InitAuth /\ [][NextToken]_vars

\* ================================================================= claims
\* The admitted requests of a user that fall in the window ending at `at`.
AdmittedIn(user_id, at, window_minutes) ==
  {i \in DOMAIN admitted[user_id] :
     /\ admitted[user_id][i] > at - window_minutes * SecondsPerMinute
     /\ admitted[user_id][i] <= at}

\* C1 (as claimed): under any interleaving of one user's concurrent /generate
\* requests, no window of 60 minutes holds more than max_requests admitted
\* calls, and no admitted call's timestamp is lost from the user's window: once
\* every handler has returned, each admitted timestamp that is not yet older
\* than the window is stored as often as it was admitted.
C1_Claim ==
  /\ \A u \in Users : \A at \in Instants :
       Cardinality(AdmittedIn(u, at, DefaultWindowMinutes)) <= DefaultMaxRequests
  /\ AllIdle =>
       \A u \in Users : \A at \in Instants :
         at > now - DefaultWindowMinutes * SecondsPerMinute
           => Count(admitted[u], at) <= Count(Window(u), at)

\* C3: in a sequence of is_allowed calls with fixed max_requests and window, a
\* call returns true and records its timestamp iff the purged window holds
\* fewer than max_requests timestamps, otherwise it returns false and records
\* nothing; and no window ever holds more than max_requests timestamps.
C3_AdmitIffUnderLimit ==
  /\ \A u \in DOMAIN requests : Len(requests[u]) <= cfg.max_requests
  /\ \A f \in Active :
       f.pc = "done" /\ f.kind = "is_allowed" =>
         LET kept == PurgeOld(f.pre, f.window_start)
         IN  /\ f.allowed <=> Len(kept) < f.max_requests
             /\ requests[f.user_id] =
                  IF f.allowed THEN Append(kept, f.current_time) ELSE kept

C3_Witness ==
  \E f \in Active :
    /\ f.pc = "done" /\ f.kind = "is_allowed" /\ ~f.allowed
    /\ Len(requests[f.user_id]) = cfg.max_requests
    /\ cfg.max_requests = MaxLimit

\* C4: in generate the rate-limit check precedes the provider call: the
\* provider is invoked only by a call the limiter admitted, and a call the
\* limiter rejected ends as rate_limit without having invoked the provider.
C4_RateLimitedSkipsProvider ==
  \A f \in Active :
    f.kind = "generate" =>
      /\ (f.pc = "L128" \/ f.invoked > 0) => f.allowed
      /\ f.pc = "done" /\ ~f.allowed =>
           f.error_type = "rate_limit" /\ f.invoked = 0

C4_Witness ==
  \E f \in Active :
    /\ f.pc = "done" /\ f.kind = "generate" /\ ~f.allowed
    /\ f.error_type = "rate_limit" /\ f.invoked = 0

\* C5: whatever the provider does, no step a generate call takes after the
\* limiter admitted it (the gate, the provider call, the outcome mapping)
\* changes any window: the timestamp recorded for the call is not reverted.
C5_ProviderFailureKeepsSlot ==
  [][\A f \in Active :
       (f.kind = "generate" /\ f.allowed /\ f.pc \in {"L76", "L128"}
          /\ CopiesIn(f, running') < CopiesIn(f, running))
         => requests' = requests]_vars

C5_Witness ==
  \E f \in Active :
    /\ f.pc = "done" /\ f.kind = "generate" /\ f.allowed
    /\ f.error_type = "quota_exceeded"
    /\ f.current_time \in Range(requests[f.user_id])

\* C6 (as claimed): /generate reports RateLimited as 429 and both
\* QuotaExceeded and ProviderError as 503.
C6_Claim ==
  \A f \in Active :
    f.pc = "done" /\ f.kind = "generate" =>
      /\ f.error_type = "rate_limit" => f.status = HTTP_429_TOO_MANY_REQUESTS
      /\ f.error_type \in {"quota_exceeded", "api_error"}
           => f.status = HTTP_503_SERVICE_UNAVAILABLE

\* C2 (as claimed): whatever the interleaving of signup calls whose usernames
\* are equal ignoring case, at most one row holds the lowercase username, and
\* every such call either succeeds or fails with 400 'Username already
\* exists', the row being there in both cases.
C2_Claim ==
  /\ \A raw \in UsernameInputs : Cardinality(RowsNamed(Lower(raw))) <= 1
  /\ \A f \in Active :
       (f.pc = "done" /\ f.kind = "signup" /\ f.status # HTTP_422_VALIDATION_ERROR) =>
         /\ Cardinality(RowsNamed(f.username)) = 1
         /\ \/ f.status = HTTP_200_OK
            \/ /\ f.status = HTTP_400_BAD_REQUEST
               /\ f.detail = "Username already exists"

\* C7 (as claimed): validate returns an identity only for a token whose
\* signature verifies, whose type is 'access', that carries sub and user_id and
\* whose expires_at is later than the current time; every other token gets
\* 401, an expired one as 'Token has expired', the others as 'Could not
\* validate credentials'.
C7_Claim ==
  \A f \in Active :
    f.pc = "done" /\ f.kind = "validate" =>
      LET token == f.token
          payload == token.payload
          signed == token.sig = "valid"
          unexpired == "exp" \in DOMAIN payload /\ payload["exp"] > f.current_time
          expired == "exp" \in DOMAIN payload /\ payload["exp"] <= f.current_time
          good == /\ signed
                  /\ "type" \in DOMAIN payload /\ payload["type"] = "access"
                  /\ "sub" \in DOMAIN payload /\ "user_id" \in DOMAIN payload
                  /\ unexpired
      IN  /\ f.status = HTTP_200_OK => good
          /\ ~good =>
               /\ f.status = HTTP_401_UNAUTHORIZED
               /\ f.headers = "WWW-Authenticate: Bearer"
               /\ f.detail = IF signed /\ expired THEN "Token has expired"
                             ELSE "Could not validate credentials"

C9_AdmittedAgainAfterWindow ==
  \A f \in Active :
    f.pc = "done" /\ f.kind = "is_allowed" /\ ~f.allowed =>
      Cardinality(AdmittedIn(f.user_id, f.current_time, f.window_minutes))
        >= f.max_requests

\* admitted, rejected twice, then admitted once the window has elapsed
C9_Witness ==
  \E f \in Active :
    /\ f.pc = "done" /\ f.kind = "is_allowed" /\ f.allowed
    /\ cfg.max_requests = 1 /\ calls = 4
    /\ DOMAIN requests = {f.user_id}
    /\ Len(admitted[f.user_id]) = 2
    /\ requests[f.user_id] = <<f.current_time>>

\* C10 (as claimed): stats purges the stale entries of the identity's window:
\* after a stats call the stored window holds no timestamp older than the
\* hour that call counted.
C10_Claim ==
  \A f \in Active :
    f.pc = "done" /\ f.kind = "stats" =>
      \A i \in DOMAIN Window(f.user_id) :
        Window(f.user_id)[i] > f.current_time - DefaultWindowMinutes * SecondsPerMinute

\* C10 (amended): stats has no side effect at all: it stores nothing, so it
\* purges nothing, records nothing, creates no window and leaves every
\* identity's window, and with it every later is_allowed result, as it was.
C10_StatsReadOnly ==
  [][(\E f \in BagToSet(running') :
        /\ f.kind = "stats"
        /\ CopiesIn(f, running') > CopiesIn(f, running))
       => requests' = requests]_vars

\* a stats call that left stale entries in the window it counted
C10_Witness ==
  \E f \in Active :
    /\ f.pc = "done" /\ f.kind = "stats"
    /\ f.user_id \in DOMAIN requests
    /\ f.stats.used < Len(requests[f.user_id])

\* The timestamps of the window a call found whose age is at least `age`
\* seconds at the time of the call.
AgedAtLeast(f, age) == {i \in DOMAIN f.pre : f.current_time - f.pre[i] >= age}

\* C13 (as claimed): the purge done by is_allowed at time now removes exactly
\* the timestamps older than now - window (t < now - window) and keeps every
\* other one, including a timestamp equal to now - window, which still counts
\* against max_requests.
C13_Claim ==
  \A f \in Active :
    f.kind = "is_allowed" /\ f.pc \in {"L54", "done"} =>
      LET window == f.window_minutes * SecondsPerMinute
          older  == AgedAtLeast(f, window + 1)
      IN  /\ f.pc = "L54" =>
               \A t \in Range(f.pre) :
                 Count(requests[f.user_id], t) =
                   Cardinality({i \in DOMAIN f.pre \ older : f.pre[i] = t})
          /\ f.pc = "done" =>
               (f.allowed <=>
                  Cardinality(DOMAIN f.pre \ older) < f.max_requests)

\* C13 (amended): the purge done by is_allowed at time now removes exactly
\* the timestamps t <= now - window and keeps, in their order, the timestamps
\* t > now - window; a timestamp equal to now - window is removed and no
\* longer counts against max_requests.
C13_PurgeDropsBoundary ==
  \A f \in Active :
    f.kind = "is_allowed" /\ f.pc \in {"L54", "done"} =>
      LET window == f.window_minutes * SecondsPerMinute
          old    == AgedAtLeast(f, window)
      IN  /\ f.pc = "L54" =>
               /\ Range(requests[f.user_id]) \subseteq Range(f.pre)
               /\ \A t \in Range(f.pre) :
                    Count(requests[f.user_id], t) =
                      Cardinality({i \in DOMAIN f.pre \ old : f.pre[i] = t})
               /\ \A i, j \in DOMAIN requests[f.user_id] :
                    i < j => requests[f.user_id][i] <= requests[f.user_id][j]
          /\ f.pc = "done" =>
               (f.allowed <=>
                  Cardinality(DOMAIN f.pre \ old) < f.max_requests)

\* A call that found a full window holding a timestamp older than
\* now - window and one equal to now - window, and was admitted.
C13_Witness ==
  \E f \in Active :
    /\ f.kind = "is_allowed" /\ f.pc = "done" /\ f.allowed
    /\ Len(f.pre) = f.max_requests
    /\ \E i, j \in DOMAIN f.pre :
         /\ f.pre[i] < f.current_time - f.window_minutes * SecondsPerMinute
         /\ f.pre[j] = f.current_time - f.window_minutes * SecondsPerMinute
    /\ requests[f.user_id] = <<f.current_time>>

\* The handlers in progress that a step took a step of, or altered.
Stepped == {f \in Active : CopiesIn(f, running') < CopiesIn(f, running)}

\* C11: the windows of different identities are independent. A step changes,
\* creates or removes the window of an identity only as a step of an
\* is_allowed or generate call for that identity, and alters no call in
\* progress of another identity; and a call for an identity is rejected only
\* when that identity's own admitted calls have reached the limit, whatever
\* the other identities did.
C11_WindowsIndependent ==
  /\ [][/\ \A y \in Users :
             \/ /\ Window(y)' = Window(y)
                /\ (y \in DOMAIN requests') <=> (y \in DOMAIN requests)
             \/ \E f \in Stepped :
                  f.user_id = y /\ f.kind \in {"is_allowed", "generate"}
        /\ \A f, g \in Stepped : f.user_id = g.user_id]_vars
  /\ [](\A f \in Active :
          f.pc = "done" /\ f.kind = "generate" /\ ~f.allowed =>
            /\ f.error_type = "rate_limit"
            /\ Len(admitted[f.user_id]) >= f.max_requests)

\* One identity has exhausted its limit, and the call of another identity,
\* made no earlier than the calls that exhausted it, is the first call of
\* that identity and was admitted.
C11_Witness ==
  \E x \in Users : \E f \in Active :
    /\ Len(PurgeOld(Window(x), WindowStart(now, DefaultWindowMinutes)))
         >= DefaultMaxRequests
    /\ f.pc = "done" /\ f.kind = "generate" /\ f.user_id # x
    /\ f.allowed /\ Len(admitted[f.user_id]) = 1
    /\ \A i \in DOMAIN Window(x) : Window(x)[i] <= f.current_time
    /\ requests[f.user_id] = <<f.current_time>>

\* C12: after any sequence of generate calls, stats for an identity reports
\* used = the number of the identity's admitted calls within the last 60
\* minutes (less than 60 minutes before the stats call), max = 10 and
\* remaining = max(0, 10 - used); after exactly one generation call, still
\* within the hour, it reports used 1 and remaining 9;
\* and a generate call made at the same instant on the window the stats call
\* saw (it leaves that window, purged, with its own timestamp added when it is
\* admitted) is admitted iff remaining > 0.  A stats result is compared with
\* the calls made up to it: while the clock still reads the instant of the
\* stats call and the window is as the stats call saw it.
C12_StatsCountAdmitted ==
  \A s \in Active :
    s.kind = "stats" =>
      /\ s.stats.max = 10
      /\ s.stats.remaining = (IF s.stats.used < 10 THEN 10 - s.stats.used ELSE 0)
      /\ now = s.current_time /\ Window(s.user_id) = s.pre =>
           /\ s.stats.used =
                Cardinality(AdmittedIn(s.user_id, s.current_time, 60))
           /\ Len(admitted[s.user_id]) = 1 /\ s.stats.used > 0 =>
                s.stats.used = 1 /\ s.stats.remaining = 9
      /\ \A g \in Active :
           /\ g.kind = "generate" /\ g.pc = "done"
           /\ g.user_id = s.user_id
           /\ g.current_time = s.current_time /\ now = s.current_time
           /\ Window(s.user_id) =
                LET seen == SelectSeq(s.pre, LAMBDA t : s.current_time - t < 3600)
                IN  IF g.allowed THEN Append(seen, g.current_time) ELSE seen
           => (g.allowed <=> s.stats.remaining > 0)

\* stats after exactly one generation call of the identity reports used 1 and
\* remaining 9.
C12_Witness ==
  \E s \in Active :
    /\ s.kind = "stats" /\ s.pre = Window(s.user_id) /\ now = s.current_time
    /\ Len(admitted[s.user_id]) = 1
    /\ s.stats = [used |-> 1, max |-> 10, remaining |-> 9]

====
